---- MODULE Spec2Model ----
(***************************************************************************)
(* docs-server (src/src/main.rs): a live-reload HTTP server for rustdoc.   *)
(*                                                                         *)
(* main() runs on the thread that drives the tokio runtime (block_on).     *)
(* It resolves the package, runs `cargo doc` once and waits for it, then   *)
(* spawns the watcher task, binds the listener, spawns the server task and *)
(* awaits the server task's JoinHandle.  The two spawned tasks run on the  *)
(* runtime's pool of worker threads.  The watcher task never awaits: once  *)
(* a worker polls it, the blocking channel iteration and the blocking      *)
(* Command::output() keep that worker until the task panics.               *)
(* Panics unwind (Rust's default): a panic inside a spawned task ends that *)
(* task only; a panic in main drops the runtime, which joins its workers.  *)
(***************************************************************************)
EXTENDS Naturals, Integers, Sequences, FiniteSets

\* ------------------------------------------------------------------ bounds
\* the channel is unbounded in the code; the model caps what is in flight
MaxQueue == 2
\* total number of results the notification backend delivers in one run
MaxEvents == 3
\* total number of HTTP requests received in one run
MaxRequests == 1
\* the runtime has one worker per CPU core: 1 .. MaxWorkers are tried
MaxWorkers == 2

VARIABLES
    mainpc,      \* position of main(): see MainPcs
    initial,     \* the initial `cargo doc`: "notrun", "running", "exited", "spawnfail"
    wpc,         \* position of the watcher task: see WatcherPcs
    wpanic,      \* which .expect ended the watcher task: "none", "create", "watch", "spawn"
    queue,       \* the mpsc channel: results sent by the watcher, not yet received
    res,         \* the loop variable `res` of the iteration in progress, "none" between iterations
    lastBuild,   \* outcome of the last triggered `cargo doc`
    active,      \* number of `cargo doc` child processes currently running
    triggered,   \* number of `cargo doc` children the watcher loop has started
    started,     \* number of `cargo doc` children started in all, the initial one included
    spc,         \* position of the server task: see ServerPcs
    bound,       \* the TcpListener exists
    pending,     \* connections received and not yet answered
    answered,    \* requests answered
    numWorkers,  \* worker threads of the runtime (number of CPU cores)
    delivered,   \* results sent into the channel so far
    owed,        \* an interesting event was delivered and no build has started since
    obs,         \* observer of one in-flight build and the builds that follow it
    wlog,  \* the last record the watcher loop wrote to the log
    consumed,  \* interesting events the watcher loop has received
    targets,  \* package.targets: the declared targets, each a kind and a name
    target,  \* the documented unit chosen at startup, NoTarget before
    outdir,  \* the files under <target directory>/doc
    lastResp,  \* the response to the last request answered
    missed  \* a source file changed while the initial build ran

vars == <<mainpc, initial, wpc, wpanic, queue, res, lastBuild, active, triggered, started,
          spc, bound, pending, answered, numWorkers, delivered, owed, obs, wlog, consumed, targets, target, outdir, lastResp, missed>>

\* notify::EventKind, and "Err" for a notify::Result that is an error
EventKinds == {"Any", "Access", "Create", "Modify", "Remove", "Other"}
Results == EventKinds \cup {"Err"}

MainPcs == {"metadata", "initial_build", "initial_wait", "spawn_watcher", "bind",
            "spawn_server", "await", "panicking", "exited"}
WatcherPcs == {"unspawned", "queued", "watch", "recv", "building", "panicked"}
ServerPcs == {"unspawned", "queued", "serving", "failed"}

\* the match on event.kind: Create | Modify | Remove go on to the build
IsInteresting_AccessToo(k) == k \in {"Create", "Modify", "Remove", "Access"}
IsInteresting(k) == k \in {"Create", "Modify", "Remove"}

InterestingIn(q) == Len(SelectSeq(q, IsInteresting))

\* the runtime lives until main panics and the runtime is dropped
RuntimeUp == mainpc \notin {"panicking", "exited"}

\* the watcher task holds a worker thread from its first poll until it panics
WatcherBusy == wpc \in {"watch", "recv", "building"}
FreeWorkers == numWorkers - (IF WatcherBusy THEN 1 ELSE 0)

\* the watch is registered and the sender half of the channel is alive
\* a variant whose watch exists from the moment the initial build is started
Watching_BeforeInitialBuild == initial = "running" \/ wpc \in {"recv", "building"}

Watching == wpc \in {"recv", "building"}

ObsOff == [phase |-> "off", n |-> 0, extra |-> 0]

\* records of the watcher loop: log::info! before a build, log::error! for a
\* result that is an error
NoRecord == [level |-> "none", msg |-> "none"]
Recompiling == [level |-> "info", msg |-> "Source files changed, recompiling..."]
WatchError == [level |-> "error", msg |-> "Watch error"]

\* `res` is bound for one iteration: it is alive while the iteration's build
\* runs, and dropped when the iteration ends (at once for Err and `continue`)
ResAfterRecv(r) == IF IsInteresting(r) THEN r ELSE "none"

\* a variant whose Err arm logs nothing
LoopRecord_NoErrorLog(r, last) ==
    IF IsInteresting(r) THEN Recompiling ELSE last

\* what one iteration of the loop logs for the result r it received
LoopRecord(r, last) ==
    IF r = "Err" THEN WatchError
    ELSE IF IsInteresting(r) THEN Recompiling
    ELSE last

\* ------------------------------------------------------- documented unit
MaxTargets == 3
TargetKinds == {"lib", "bin", "example"}
TargetNames == {"a", "b"}
Targets == [kind : TargetKinds, name : TargetNames]
NoTarget == [kind |-> "none", name |-> "none"]

RECURSIVE SeqsUpTo(_, _)
SeqsUpTo(S, n) ==
    IF n = 0 THEN {<<>>}
    ELSE LET shorter == SeqsUpTo(S, n - 1)
         IN  shorter \cup {Append(q, x) : q \in {r \in shorter : Len(r) = n - 1}, x \in S}

\* every list of at most MaxTargets targets
AllPackages == SeqsUpTo(Targets, MaxTargets)

\* the packages the whole program is run on: one with no target, one with a
\* binary declared before a library
SamplePackages ==
    { <<>>,
      <<[kind |-> "bin", name |-> "b"], [kind |-> "lib", name |-> "a"]>> }

\* Iterator::find: the first element of the given kind, NoTarget for None
RECURSIVE Find(_, _)
Find(ts, kind) ==
    IF ts = <<>> THEN NoTarget
    ELSE IF Head(ts).kind = kind THEN Head(ts)
    ELSE Find(Tail(ts), kind)

\* Option::or
OrElse(a, b) == IF a # NoTarget THEN a ELSE b

\* slice::first
First(ts) == IF ts = <<>> THEN NoTarget ELSE Head(ts)

\* a variant that takes the first declared target whatever its kind
SelectTarget_FirstDeclared(ts) == First(ts)

\* targets.find(is_lib).or(targets.find(is_bin)).or(targets.first())
SelectTarget(ts) == OrElse(OrElse(Find(ts, "lib"), Find(ts, "bin")), First(ts))

\* ------------------------------------------------------------ HTTP surface
Files == {"/page.html"}
RequestPaths == {"/"} \cup Files
NoResponse == [path |-> "none", status |-> 0, location |-> <<>>]

\* a variant whose root route redirects to the first declared target
Route_FirstDeclared(path) ==
    IF path = "/"
    THEN [path |-> path, status |-> 308, location |-> <<"/", First(targets).name, "/">>]
    ELSE [path |-> path, status |-> (IF path \in outdir THEN 200 ELSE 404), location |-> <<>>]

\* a variant with no fallback service: every path but the root is not found
Route_NoFallback(path) ==
    IF path = "/"
    THEN [path |-> path, status |-> 308, location |-> <<"/", target.name, "/">>]
    ELSE [path |-> path, status |-> 404, location |-> <<>>]

\* the Router: GET / is Redirect::permanent to /<target.name>/, any other
\* path falls back to ServeDir, a lookup under the output directory
Route(path) ==
    IF path = "/"
    THEN [path |-> path, status |-> 308, location |-> <<"/", target.name, "/">>]
    ELSE [path |-> path, status |-> (IF path \in outdir THEN 200 ELSE 404), location |-> <<>>]

\* everything but the package: nothing has run yet
InitRest ==
    /\ mainpc = "metadata"
    /\ initial = "notrun"
    /\ wpc = "unspawned"
    /\ wpanic = "none"
    /\ queue = <<>>
    /\ res = "none"
    /\ lastBuild = "none"
    /\ active = 0
    /\ triggered = 0
    /\ started = 0
    /\ spc = "unspawned"
    /\ bound = FALSE
    /\ pending = 0
    /\ answered = 0
    /\ numWorkers \in 1..MaxWorkers
    /\ delivered = 0
    /\ owed = FALSE
    /\ obs = ObsOff
    /\ wlog = NoRecord
    /\ consumed = 0
    /\ target = NoTarget
    /\ outdir \in SUBSET Files
    /\ lastResp = NoResponse
    /\ missed = FALSE

\* the program about to start, on one of the sample packages
Init == targets \in SamplePackages /\ InitRest

\* the program about to start, on any package of at most MaxTargets targets
SelectInit == targets \in AllPackages /\ InitRest

\* ------------------------------------------------------------------ main()
\* metadata and package resolution (found), then target selection: every
\* failure is a panic in main
MainResolve ==
    /\ mainpc = "metadata"
    /\ \E found \in BOOLEAN :
          IF found /\ SelectTarget(targets) # NoTarget
          THEN mainpc' = "initial_build" /\ target' = SelectTarget(targets)
          ELSE mainpc' = "panicking" /\ target' = target
    /\ UNCHANGED <<initial, wpc, wpanic, queue, res, lastBuild, active, triggered, started,
                   spc, bound, pending, answered, numWorkers, delivered, owed, obs, wlog,
                   consumed, targets, outdir, lastResp, missed>>

\* a variant that does not wait for the child (spawn() in place of output())
MainInitialBuild_NoWait ==
    /\ mainpc = "initial_build"
    /\ initial' = "running"
    /\ active' = active + 1
    /\ started' = started + 1
    /\ mainpc' = "spawn_watcher"
    /\ UNCHANGED <<wpc, wpanic, queue, res, lastBuild, triggered,
                   spc, bound, pending, answered, numWorkers, delivered, owed, obs, wlog, consumed, targets, target, outdir, lastResp, missed>>

\* Command::new("cargo")...output(): the child is spawned, or .expect panics
MainInitialBuild ==
    /\ mainpc = "initial_build"
    /\ \E spawned \in BOOLEAN :
          IF spawned
          THEN /\ initial' = "running"
               /\ active' = active + 1
               /\ started' = started + 1
               /\ mainpc' = "initial_wait"
          ELSE /\ initial' = "spawnfail"
               /\ mainpc' = "panicking"
               /\ UNCHANGED <<active, started>>
    /\ UNCHANGED <<wpc, wpanic, queue, res, lastBuild, triggered,
                   spc, bound, pending, answered, numWorkers, delivered, owed, obs, wlog, consumed, targets, target, outdir, lastResp, missed>>

\* output() returns when the child exits; its exit status is not looked at
MainInitialBuildExit ==
    /\ mainpc = "initial_wait"
    /\ initial = "running"
    /\ initial' = "exited"
    /\ active' = active - 1
    /\ mainpc' = "spawn_watcher"
    /\ outdir' \in SUBSET Files
    /\ UNCHANGED <<wpc, wpanic, queue, res, lastBuild, triggered, started,
                   spc, bound, pending, answered, numWorkers, delivered, owed, obs, wlog, consumed, targets, target, lastResp, missed>>

\* tokio::spawn(async move { ... }): the task is queued, its JoinHandle dropped
MainSpawnWatcher ==
    /\ mainpc = "spawn_watcher"
    /\ wpc' = "queued"
    /\ mainpc' = "bind"
    /\ UNCHANGED <<initial, wpanic, queue, res, lastBuild, active, triggered, started,
                   spc, bound, pending, answered, numWorkers, delivered, owed, obs, wlog, consumed, targets, target, outdir, lastResp, missed>>

\* TcpListener::bind(args.bind).await.expect(...)
MainBind ==
    /\ mainpc = "bind"
    /\ \E ok \in BOOLEAN :
          IF ok
          THEN bound' = TRUE /\ mainpc' = "spawn_server"
          ELSE bound' = FALSE /\ mainpc' = "panicking"
    /\ UNCHANGED <<initial, wpc, wpanic, queue, res, lastBuild, active, triggered, started,
                   spc, pending, answered, numWorkers, delivered, owed, obs, wlog, consumed, targets, target, outdir, lastResp, missed>>

\* tokio::spawn(axum::serve(...)), then the best-effort open::that
MainSpawnServer ==
    /\ mainpc = "spawn_server"
    /\ spc' = "queued"
    /\ mainpc' = "await"
    /\ UNCHANGED <<initial, wpc, wpanic, queue, res, lastBuild, active, triggered, started,
                   bound, pending, answered, numWorkers, delivered, owed, obs, wlog, consumed, targets, target, outdir, lastResp, missed>>

\* handle.await.expect(...): main resumes only when the server task has ended
MainAwait ==
    /\ mainpc = "await"
    /\ spc = "failed"
    /\ mainpc' = "panicking"
    /\ UNCHANGED <<initial, wpc, wpanic, queue, res, lastBuild, active, triggered, started,
                   spc, bound, pending, answered, numWorkers, delivered, owed, obs, wlog, consumed, targets, target, outdir, lastResp, missed>>

\* the panic unwinds main and drops the runtime, which joins its worker
\* threads: a worker held by the watcher task never returns to be joined
ProcessExit ==
    /\ mainpc = "panicking"
    /\ ~WatcherBusy
    /\ mainpc' = "exited"
    /\ UNCHANGED <<initial, wpc, wpanic, queue, res, lastBuild, active, triggered, started,
                   spc, bound, pending, answered, numWorkers, delivered, owed, obs, wlog, consumed, targets, target, outdir, lastResp, missed>>

\* ------------------------------------------------------------ watcher task
\* first poll of the task by a free worker: channel() and
\* notify::recommended_watcher(tx).expect("Failed to create watcher")
WatcherCreate ==
    /\ wpc = "queued"
    /\ RuntimeUp
    /\ FreeWorkers > 0
    /\ \E ok \in BOOLEAN :
          IF ok
          THEN wpc' = "watch" /\ wpanic' = "none"
          ELSE wpc' = "panicked" /\ wpanic' = "create"
    /\ UNCHANGED <<mainpc, initial, queue, res, lastBuild, active, triggered, started,
                   spc, bound, pending, answered, numWorkers, delivered, owed, obs, wlog, consumed, targets, target, outdir, lastResp, missed>>

\* watcher.watch(<manifest dir>/src/, Recursive).expect("Failed to watch src directory")
WatcherWatch ==
    /\ wpc = "watch"
    /\ \E ok \in BOOLEAN :
          IF ok
          THEN wpc' = "recv" /\ wpanic' = "none"
          ELSE wpc' = "panicked" /\ wpanic' = "watch"
    /\ UNCHANGED <<mainpc, initial, queue, res, lastBuild, active, triggered, started,
                   spc, bound, pending, answered, numWorkers, delivered, owed, obs, wlog, consumed, targets, target, outdir, lastResp, missed>>

\* a source file changes while the initial cargo doc runs: the watcher and
\* its channel are created in the task spawned after output() has returned,
\* so there is nothing to send the change to
SourceChangeDuringInitialBuild ==
    /\ initial = "running"
    /\ ~Watching
    /\ ~missed
    /\ missed' = TRUE
    /\ UNCHANGED <<mainpc, initial, wpc, wpanic, queue, res, lastBuild, active, triggered, started,
                   spc, bound, pending, answered, numWorkers, delivered, owed, obs, wlog,
                   consumed, targets, target, outdir, lastResp>>

\* the notification backend sends a result into the channel (its own thread)
FsNotify(r) ==
    /\ Watching
    /\ mainpc # "exited"
    /\ Len(queue) < MaxQueue
    /\ delivered < MaxEvents
    /\ queue' = Append(queue, r)
    /\ delivered' = delivered + 1
    /\ owed' = (owed \/ IsInteresting(r))
    /\ obs' = IF ~IsInteresting(r) THEN obs
              ELSE IF obs.phase = "inflight" THEN [obs EXCEPT !.n = @ + 1]
              ELSE IF obs.phase = "after" THEN ObsOff
              ELSE obs
    /\ UNCHANGED <<mainpc, initial, wpc, wpanic, res, lastBuild, active, triggered, started,
                   spc, bound, pending, answered, numWorkers, wlog, consumed, targets, target, outdir, lastResp, missed>>

\* observer: a build that starts; `rest` is what stays queued behind it
ObsBuildStart(rest) ==
    IF obs.phase = "after" THEN [obs EXCEPT !.extra = @ + 1]
    ELSE IF InterestingIn(rest) = 0 THEN [phase |-> "inflight", n |-> 0, extra |-> 0]
    ELSE ObsOff

\* a variant that drops everything queued when it starts a build
WatcherRecv_Coalescing ==
    /\ wpc = "recv"
    /\ queue # <<>>
    /\ res' = ResAfterRecv(Head(queue))
    /\ wlog' = LoopRecord(Head(queue), wlog)
    /\ consumed' = consumed + (IF IsInteresting(Head(queue)) THEN 1 ELSE 0)
    /\ IF IsInteresting(Head(queue))
       THEN /\ queue' = <<>>
            /\ wpc' = "building"
            /\ wpanic' = wpanic
            /\ active' = active + 1
            /\ triggered' = triggered + 1
            /\ started' = started + 1
            /\ lastBuild' = "running"
            /\ owed' = FALSE
            /\ obs' = ObsBuildStart(<<>>)
       ELSE /\ queue' = Tail(queue)
            /\ UNCHANGED <<wpc, wpanic, active, triggered, started, lastBuild, owed, obs>>
    /\ UNCHANGED <<mainpc, initial, spc, bound, pending, answered, numWorkers, delivered, targets, target, outdir, lastResp, missed>>

\* a variant that starts the child and goes back to the channel without waiting
WatcherRecv_NoWait ==
    /\ wpc = "recv"
    /\ queue # <<>>
    /\ res' = ResAfterRecv(Head(queue))
    /\ wlog' = LoopRecord(Head(queue), wlog)
    /\ consumed' = consumed + (IF IsInteresting(Head(queue)) THEN 1 ELSE 0)
    /\ queue' = Tail(queue)
    /\ IF IsInteresting(Head(queue))
       THEN /\ active' = active + 1
            /\ triggered' = triggered + 1
            /\ started' = started + 1
            /\ lastBuild' = "running"
            /\ owed' = FALSE
       ELSE UNCHANGED <<active, triggered, started, lastBuild, owed>>
    /\ UNCHANGED <<mainpc, initial, wpc, wpanic, spc, bound, pending, answered,
                   numWorkers, delivered, obs, targets, target, outdir, lastResp, missed>>

\* one iteration of `for res in rx`, up to the point where the child runs:
\*   Err(e)               -> log::error!, next iteration
\*   Ok(other kind)       -> continue
\*   Ok(Create|Modify|Remove) -> log::info!, Command::output(): the child is
\*                           spawned and the task blocks, or .expect panics
WatcherRecv ==
    /\ wpc = "recv"
    /\ queue # <<>>
    /\ res' = ResAfterRecv(Head(queue))
    /\ wlog' = LoopRecord(Head(queue), wlog)
    /\ consumed' = consumed + (IF IsInteresting(Head(queue)) THEN 1 ELSE 0)
    /\ IF IsInteresting(Head(queue))
       THEN \E spawned \in BOOLEAN :
              IF spawned
              THEN /\ queue' = Tail(queue)
                   /\ wpc' = "building"
                   /\ wpanic' = wpanic
                   /\ active' = active + 1
                   /\ triggered' = triggered + 1
                   /\ started' = started + 1
                   /\ lastBuild' = "running"
                   /\ owed' = FALSE
                   /\ obs' = ObsBuildStart(Tail(queue))
              ELSE \* the panic drops rx and the watcher: the channel is gone
                   /\ queue' = <<>>
                   /\ wpc' = "panicked"
                   /\ wpanic' = "spawn"
                   /\ lastBuild' = "spawnfail"
                   /\ UNCHANGED <<active, triggered, started, owed, obs>>
       ELSE /\ queue' = Tail(queue)
            /\ UNCHANGED <<wpc, wpanic, active, triggered, started, lastBuild, owed, obs>>
    /\ UNCHANGED <<mainpc, initial, spc, bound, pending, answered, numWorkers, delivered, targets, target, outdir, lastResp, missed>>

\* a variant that runs the generator again when it exits with a failure
TriggeredBuildExit_Retry ==
    /\ wpc = "building"
    /\ \E status \in {"ok", "nonzero"} :
          /\ lastBuild' = (IF status = "ok" THEN "ok" ELSE "running")
          /\ wpc' = (IF status = "ok" THEN "recv" ELSE "building")
          /\ active' = (IF status = "ok" THEN active - 1 ELSE active)
          /\ triggered' = (IF status = "ok" THEN triggered ELSE triggered + 1)
          /\ started' = (IF status = "ok" THEN started ELSE started + 1)
    /\ triggered < MaxEvents
    /\ obs' = obs
    /\ res' = res
    /\ outdir' \in SUBSET Files
    /\ UNCHANGED <<mainpc, initial, wpanic, queue,
                   spc, bound, pending, answered, numWorkers, delivered, owed, wlog, consumed,
                   targets, target, lastResp, missed>>

\* the child exits and output() returns Ok(Output): the status is not looked
\* at, and the loop goes back to the channel
TriggeredBuildExit ==
    /\ wpc = "building"
    /\ \E status \in {"ok", "nonzero"} : lastBuild' = status
    /\ outdir' \in SUBSET Files
    /\ wpc' = "recv"
    /\ res' = "none"
    /\ active' = active - 1
    /\ obs' = IF obs.phase = "inflight"
              THEN (IF obs.n >= 1 THEN [obs EXCEPT !.phase = "after"] ELSE ObsOff)
              ELSE obs
    /\ UNCHANGED <<mainpc, initial, wpanic, queue, triggered, started,
                   spc, bound, pending, answered, numWorkers, delivered, owed, wlog, consumed, targets, target, lastResp, missed>>

\* ------------------------------------------------------------- server task
\* first poll of the server task by a free worker: axum::serve starts accepting
ServerStart ==
    /\ spc = "queued"
    /\ RuntimeUp
    /\ FreeWorkers > 0
    /\ spc' = "serving"
    /\ UNCHANGED <<mainpc, initial, wpc, wpanic, queue, res, lastBuild, active, triggered, started,
                   bound, pending, answered, numWorkers, delivered, owed, obs, wlog, consumed, targets, target, outdir, lastResp, missed>>

\* a client connects: the kernel accepts on the bound listener
RequestArrives ==
    /\ bound
    /\ RuntimeUp
    /\ pending + answered < MaxRequests
    /\ pending' = pending + 1
    /\ UNCHANGED <<mainpc, initial, wpc, wpanic, queue, res, lastBuild, active, triggered, started,
                   spc, bound, answered, numWorkers, delivered, owed, obs, wlog, consumed, targets, target, outdir, lastResp, missed>>

\* a worker polls the server: one request is routed and answered
ServerAnswer ==
    /\ spc = "serving"
    /\ RuntimeUp
    /\ FreeWorkers > 0
    /\ pending > 0
    /\ pending' = pending - 1
    /\ answered' = answered + 1
    /\ \E path \in RequestPaths : lastResp' = Route(path)
    /\ UNCHANGED <<mainpc, initial, wpc, wpanic, queue, res, lastBuild, active, triggered, started,
                   spc, bound, numWorkers, delivered, owed, obs, wlog, consumed, targets, target, outdir, missed>>

\* axum::serve(...).await returns Err: .expect panics inside the server task,
\* the listener is dropped with it
ServerFail ==
    /\ spc = "serving"
    /\ RuntimeUp
    /\ FreeWorkers > 0
    /\ spc' = "failed"
    /\ bound' = FALSE
    /\ UNCHANGED <<mainpc, initial, wpc, wpanic, queue, res, lastBuild, active, triggered, started,
                   pending, answered, numWorkers, delivered, owed, obs, wlog, consumed, targets, target, outdir, lastResp, missed>>

\* ------------------------------------------------------------ specification
Next ==
    \/ MainResolve
    \/ MainInitialBuild
    \/ MainInitialBuildExit
    \/ MainSpawnWatcher
    \/ MainBind
    \/ MainSpawnServer
    \/ MainAwait
    \/ ProcessExit
    \/ WatcherCreate
    \/ WatcherWatch
    \/ \E r \in Results : FsNotify(r)
    \/ WatcherRecv
    \/ TriggeredBuildExit
    \/ ServerStart
    \/ RequestArrives
    \/ ServerAnswer
    \/ ServerFail

Spec == Init /\ [][Next]_vars

\* Fairness: main and the tasks are scheduled whenever they can run, a running
\* child process exits, and a received result is handled.  Nothing is assumed
\* of the environment (file events, requests, failures of the server).
Fairness ==
    /\ WF_vars(MainResolve)
    /\ WF_vars(MainInitialBuild)
    /\ WF_vars(MainInitialBuildExit)
    /\ WF_vars(MainSpawnWatcher)
    /\ WF_vars(MainBind)
    /\ WF_vars(MainSpawnServer)
    /\ WF_vars(MainAwait)
    /\ WF_vars(ProcessExit)
    /\ WF_vars(WatcherCreate)
    /\ WF_vars(WatcherWatch)
    /\ WF_vars(WatcherRecv)
    /\ WF_vars(TriggeredBuildExit)
    /\ WF_vars(ServerStart)
    /\ WF_vars(ServerAnswer)

FairSpec == Init /\ [][Next]_vars /\ Fairness

\* main's own control flow, from target selection to the await, on every
\* package of at most MaxTargets targets (the two tasks are never polled)
SelectNext ==
    \/ MainResolve
    \/ MainInitialBuild
    \/ MainInitialBuildExit
    \/ SourceChangeDuringInitialBuild
    \/ MainSpawnWatcher
    \/ MainBind
    \/ MainSpawnServer
    \/ ProcessExit

SelectSpec == SelectInit /\ [][SelectNext]_vars

\* main and the watcher task with the source tree changing from the start,
\* the initial build included (the server task is never polled)
WatchNext ==
    \/ MainResolve
    \/ MainInitialBuild
    \/ MainInitialBuildExit
    \/ SourceChangeDuringInitialBuild
    \/ MainSpawnWatcher
    \/ MainBind
    \/ MainSpawnServer
    \/ ProcessExit
    \/ WatcherCreate
    \/ WatcherWatch
    \/ \E r \in Results : FsNotify(r)
    \/ WatcherRecv
    \/ TriggeredBuildExit

WatchSpec == Init /\ [][WatchNext]_vars

TypeOK ==
    /\ mainpc \in MainPcs
    /\ initial \in {"notrun", "running", "exited", "spawnfail"}
    /\ missed \in BOOLEAN
    /\ wpc \in WatcherPcs
    /\ wpanic \in {"none", "create", "watch", "spawn"}
    /\ queue \in Seq(Results) /\ Len(queue) <= MaxQueue
    /\ res \in Results \cup {"none"}
    /\ lastBuild \in {"none", "running", "ok", "nonzero", "spawnfail"}
    /\ active \in 0..2
    /\ triggered \in 0..MaxEvents
    /\ started \in 0..(MaxEvents + 1)
    /\ spc \in ServerPcs
    /\ bound \in BOOLEAN
    /\ pending \in 0..MaxRequests
    /\ answered \in 0..MaxRequests
    /\ numWorkers \in 1..MaxWorkers
    /\ delivered \in 0..MaxEvents
    /\ owed \in BOOLEAN
    /\ wlog \in {NoRecord, Recompiling, WatchError}
    /\ consumed \in 0..MaxEvents
    /\ targets \in AllPackages
    /\ target \in Targets \cup {NoTarget}
    /\ outdir \in SUBSET Files
    /\ lastResp.path \in RequestPaths \cup {"none"}

\* ------------------------------------------------------------------ claims
NonInterestingKinds == EventKinds \ {"Create", "Modify", "Remove"}

\* the loop is idle and no interesting event is waiting in the channel
IdleAndDrained == wpc = "recv" /\ InterestingIn(queue) = 0

\* C1: at most one invocation of `cargo doc` is running in any reachable
\* state, the initial build and every build of the watcher loop included.
C1_AtMostOneBuild == active <= 1

\* a triggered build is running, after the initial build has come and gone
C1_Witness == active = 1 /\ wpc = "building" /\ initial = "exited" /\ triggered >= 2

C3_RebuildLiveness == owed ~> (~owed \/ mainpc = "exited")

\* C4: when the loop consumes an event of a kind other than create, modify or
\* remove, no build starts and nothing is left pending: the builds started,
\* the running builds, the loop's position and the interesting events still
\* queued are the same before and after.
C4_NonInterestingIsNoOp ==
    [][ ( /\ wpc = "recv"
          /\ queue # <<>>
          /\ Head(queue) \in NonInterestingKinds
          /\ queue' = Tail(queue) )
        => ( /\ triggered' = triggered
             /\ started' = started
             /\ active' = active
             /\ wpc' = "recv"
             /\ lastBuild' = lastBuild
             /\ owed' = owed
             /\ InterestingIn(queue') = InterestingIn(queue) ) ]_vars

\* the one result delivered has been consumed, it was neither an error (no
\* record) nor interesting, and the loop is back at the channel, having
\* started no build
C4_Witness ==
    /\ delivered = 1
    /\ queue = <<>>
    /\ wlog = NoRecord
    /\ consumed = 0
    /\ wpc = "recv"
    /\ triggered = 0

\* C5: after a triggered build that failed (non-zero exit status, or the
\* generator could not be spawned) the watcher loop is still alive.
C5_LoopSurvivesFailedBuild ==
    lastBuild \in {"nonzero", "spawnfail"} => wpc \in {"recv", "building"}

\* C7: when creating the watcher or registering the watch has failed, the
\* HTTP server is never serving.
C7_WatchFailureIsFatal ==
    ~(wpanic \in {"create", "watch"} /\ spc = "serving")

\* C8: once either background task has terminated, the process eventually
\* terminates.
C8_TaskTerminationIsFatal ==
    (wpc = "panicked" \/ spc = "failed") ~> (mainpc = "exited")

\* C9: while the watcher task blocks in a build or in the wait for the next
\* event, the server task can be scheduled: it can start, and can answer a
\* request that is waiting.
C9_ServerRunsWhileWatcherBlocks ==
    (wpc \in {"recv", "building"} /\ RuntimeUp) =>
        /\ spc = "queued" => ENABLED ServerStart
        /\ (spc = "serving" /\ pending > 0) => ENABLED ServerAnswer

\* C10: the listener is bound, the server task exists, a request is received
\* or answered, the watcher task exists or a triggered build has started only
\* when the one initial build has been run and has exited.
C10_InitialBuildFirst ==
    (bound \/ spc # "unspawned" \/ pending > 0 \/ answered > 0
           \/ wpc # "unspawned" \/ triggered > 0)
        => (initial = "exited" /\ started = triggered + 1)

\* a request has been answered and a triggered build has run, after the
\* initial build
C10_Witness == answered > 0 /\ triggered > 0 /\ initial = "exited"

\* C11 as stated: a first build that cannot be spawned is not fatal: main
\* goes on to start the watcher and the server.
C11_FailedInitialBuildNotFatal ==
    initial = "spawnfail" => mainpc \notin {"panicking", "exited"}

InterestingKinds == {"Create", "Modify", "Remove"}

\* C13: when the loop receives an error in place of an event it logs the
\* error, starts no build and stays in the loop with the rest of the channel
\* intact: what follows is handled as if the error had not been delivered.
C13_WatchErrorContained ==
    [][ ( /\ wpc = "recv"
          /\ queue # <<>>
          /\ Head(queue) = "Err"
          /\ Len(queue') < Len(queue) )
        => ( /\ res' = "none"
             /\ wlog' = WatchError
             /\ queue' = Tail(queue)
             /\ wpc' = "recv"
             /\ wpanic' = wpanic
             /\ triggered' = triggered
             /\ started' = started
             /\ active' = active
             /\ consumed' = consumed
             /\ lastBuild' = lastBuild ) ]_vars

\* the loop has logged a watch error and is back at the channel, where an
\* interesting event delivered after the error waits to be received
C13_Witness ==
    /\ wlog = WatchError
    /\ wpc = "recv"
    /\ triggered = 0
    /\ Len(queue) = 1
    /\ Head(queue) \in InterestingKinds
    /\ ENABLED WatcherRecv

\* C17 as stated: once a triggered build has ended in failure, the last
\* record of the loop is an error record.
C17_FailedBuildIsLogged ==
    lastBuild \in {"nonzero", "spawnfail"} => wlog.level = "error"

\* C18: a build is started by the loop only in the step that receives an
\* interesting event; after a failed build nothing else starts one, so with
\* no interesting event pending or arriving the loop stays idle.
C18_NoAutomaticRetry ==
    [][ triggered' # triggered
        => ( /\ wpc = "recv"
             /\ queue # <<>>
             /\ Head(queue) \in InterestingKinds
             /\ res' = Head(queue)
             /\ queue' = Tail(queue)
             /\ consumed' = consumed + 1
             /\ triggered' = triggered + 1 ) ]_vars

\* a triggered build has failed and the loop is idle at an empty channel,
\* no further build started
C18_Witness ==
    /\ lastBuild = "nonzero"
    /\ wpc = "recv"
    /\ queue = <<>>
    /\ triggered = 1
    /\ active = 0

\* C19 as stated: the builds started by the loop are as many as the
\* interesting events it has consumed, and no more than the events delivered.
C19_OneBuildPerConsumedEvent ==
    triggered = consumed /\ consumed <= delivered

\* main panicked in TcpListener::bind(...).expect: the watcher task has been
\* spawned, the server task has not
BindFailed ==
    /\ mainpc \in {"panicking", "exited"}
    /\ wpc # "unspawned"
    /\ spc = "unspawned"

\* C14 as stated: when binding the address fails the process terminates, and
\* it has served no request.
C14_BindFailureTerminates ==
    (BindFailed ~> mainpc = "exited") /\ [](BindFailed => answered = 0)

\* positions of the targets of kind k in ts
Positions(ts, k) == {i \in DOMAIN ts : ts[i].kind = k}
Least(S) == CHOOSE i \in S : \A j \in S : i <= j

\* the documented unit of a non-empty list of targets, by priority: a
\* library, else a binary, else the first declared
DocumentedUnit(ts) ==
    IF Positions(ts, "lib") # {} THEN ts[Least(Positions(ts, "lib"))]
    ELSE IF Positions(ts, "bin") # {} THEN ts[Least(Positions(ts, "bin"))]
    ELSE ts[1]

\* C12: once the server task exists the chosen unit is the one resolved at
\* startup, whatever builds and events have happened since, and every answer
\* to GET / is a permanent redirect to /<its name>/.
C12_RedirectToDocumentedUnit ==
    /\ spc # "unspawned" => (targets # <<>> /\ target = DocumentedUnit(targets))
    /\ lastResp.path = "/" =>
          /\ lastResp.status = 308
          /\ lastResp.location = <<"/", DocumentedUnit(targets).name, "/">>

\* GET / has been answered with the redirect in a run where two rebuilds were
\* started and the last one failed
C12_Witness ==
    /\ lastResp.path = "/"
    /\ lastResp.location = <<"/", "a", "/">>
    /\ triggered >= 2
    /\ lastBuild = "nonzero"

\* C15: the answer to GET /<path> is decided by the output directory as it is
\* when the request is answered: 200 when the file is there, 404 when it is
\* not, whatever was there before the last build.
C15_FreshnessWithoutCaching ==
    [][ (answered' = answered + 1 /\ lastResp'.path # "/")
        => ( /\ lastResp'.path \in Files
             /\ lastResp'.status = (IF lastResp'.path \in outdir THEN 200 ELSE 404) ) ]_vars

\* after a successful rebuild a request for a file of the new artifact has
\* been answered 200
C15_Witness ==
    /\ lastResp.path = "/page.html"
    /\ lastResp.status = 200
    /\ lastBuild = "ok"
    /\ triggered >= 1
    /\ wpc = "recv"

\* C16: the unit chosen at startup is a library target if the package has
\* one, else a binary target if it has one, else the first declared target;
\* with no target startup fails; once chosen the unit stays what it is.
C16_SelectionByPriority ==
    /\ mainpc = "metadata" => target = NoTarget
    /\ targets = <<>> => (target = NoTarget /\ mainpc \in {"metadata", "panicking", "exited"})
    /\ target # NoTarget =>
          /\ target = DocumentedUnit(targets)
          /\ Positions(targets, "lib") # {} => target.kind = "lib"
          /\ (Positions(targets, "lib") = {} /\ Positions(targets, "bin") # {})
                => target.kind = "bin"
          /\ (Positions(targets, "lib") = {} /\ Positions(targets, "bin") = {})
                => target = targets[1]
    /\ mainpc \in {"initial_build", "initial_wait", "spawn_watcher", "bind",
                   "spawn_server", "await"} => target # NoTarget

\* a library declared last, after an example and a binary, has been chosen
\* and main has gone on to the await
C16_Witness ==
    /\ Len(targets) = 3
    /\ targets[1].kind = "example"
    /\ targets[2].kind = "bin"
    /\ targets[3].kind = "lib"
    /\ targets[3].name # targets[1].name
    /\ target = targets[3]
    /\ mainpc = "await"

\* C20: while the initial build runs there is no watch, no channel content
\* and no watcher task; a source change made during it is sent nowhere, and
\* until a later change is delivered no rebuild is started.
C20_WatchOnlyAfterInitialBuild ==
    /\ initial = "running" =>
          (~Watching /\ wpc = "unspawned" /\ queue = <<>> /\ delivered = 0)
    /\ (missed /\ delivered = 0) =>
          (queue = <<>> /\ consumed = 0 /\ triggered = 0 /\ wlog = NoRecord
             /\ lastBuild = "none")

\* a source file changed during the initial build, the watch is now in place
\* and main is at its await, the loop is idle and no rebuild was started
C20_Witness ==
    /\ missed
    /\ initial = "exited"
    /\ wpc = "recv"
    /\ mainpc = "await"
    /\ delivered = 0
    /\ triggered = 0
    /\ started = 1

====
